---- MODULE Spec2Model ----
(***************************************************************************)
(* A model of the CNF satisfiability engine of this repository:            *)
(*   variable.py          the literal type Variable and its negation       *)
(*   dpll_solver.py       DPLL, all-solutions and first-solution modes     *)
(*   backtrack_solver.py  the exhaustive backtracking enumerator           *)
(*                                                                         *)
(* A literal is a record [name, positive].  Variable names are strings in  *)
(* the program; the only thing the engine does with a name besides         *)
(* comparing it for equality is to sort names (get_all_variables), so a    *)
(* name is modelled by its rank 1..NumVars in that order.                  *)
(*                                                                         *)
(* Every recursive function is modelled with an explicit call stack, one   *)
(* action per step of the function body.                                   *)
(***************************************************************************)
EXTENDS Integers, Sequences, FiniteSets, TLC

\* Bounds of the model: number of variable names, clauses per formula,
\* literals per clause.
NumVars == 2
MaxClauses == 3
MaxClauseLen == 2

VARIABLES
    formula,     \* the caller's clause list, handed to every entry point
    mode,        \* "idle", or the entry point that is running: "first", "all", "bt", "btv"
    stack,       \* the active invocations of the recursive function, innermost last
    solutions,   \* the shared list `solutions` of the all-solutions functions
    assignment,  \* the shared working list `assignment` of backtrack_all_solutions
    variables,   \* the list `variables` computed by get_all_variables
    retval,      \* the value returned by the invocation that returned last
    prev,        \* the completed entry-point call before `last`
    last,        \* the most recent completed entry-point call and its result
    litA,        \* a Variable object on which __neg__ is called
    litA0,       \* the fields litA was constructed with
    negA,        \* the object returned by -litA
    negNegA,     \* the object returned by -(-litA)
    litB,        \* a second Variable object, compared with litA
    cmp,         \* the results of litA == litB, hash(litA) and hash(litB)
    cmpNeg,      \* the result of litA == -litA
    primRes      \* the last call of a clause primitive: arguments and result

vars == <<formula, mode, stack, solutions, assignment, variables, retval,
          prev, last, litA, litA0, negA, negNegA, litB, cmp, cmpNeg, primRes>>

solverVars == <<formula, mode, stack, solutions, assignment, variables, retval,
                prev, last>>
litVars == <<litA, litA0, negA, negNegA, litB, cmp, cmpNeg>>
otherVars == <<litVars, primRes>>

(***************************************************************************)
(* Values                                                                  *)
(***************************************************************************)
Names == 1..NumVars

\* Variable.__init__
Variable(name, positive) == [name |-> name, positive |-> positive]

Literals == {Variable(n, p) : n \in Names, p \in BOOLEAN}

\* All sequences over S of length at most n.
SeqsUpTo(S, n) == UNION {[1..k -> S] : k \in 0..n}

ClauseSet == SeqsUpTo(Literals, MaxClauseLen)
FormulaSet == SeqsUpTo(ClauseSet, MaxClauses)

\* Python values returned by the entry points: None, or a list.
None == [kind |-> "None", val |-> <<>>]
List(s) == [kind |-> "list", val |-> s]

\* No call recorded.
NoCall == [entry |-> "none", res |-> None]
NoLit == [name |-> 0, positive |-> TRUE]

\* Variable.__neg__ applied to the object `self`: the fields of self after
\* the call, and the object returned.
VariableNegInPlace(self) ==
    [self |-> Variable(self.name, ~self.positive),
     result |-> Variable(self.name, ~self.positive)]

VariableNeg(self) ==
    [self |-> self, result |-> Variable(self.name, ~self.positive)]

\* The expression -lit.
Neg(lit) == VariableNeg(lit).result

VariableEqNameOnly(a, b) == a.name = b.name

\* Variable.__eq__, for two Variable objects
VariableEq(a, b) == a.name = b.name /\ a.positive = b.positive

\* Variable.__hash__: hash((self.name, self.positive)).  The hash of a tuple
\* is a function of its components that is not one-to-one; the model takes
\* a small modulus so that different literals do collide.
VariableHash(self) == (2 * self.name + (IF self.positive THEN 1 ELSE 0)) % 7

\* No comparison made.
NoCmp == [called |-> FALSE, eq |-> FALSE, hashA |-> 0, hashB |-> 0]
NoCmpNeg == [called |-> FALSE, eq |-> FALSE]
NoPrim == [fn |-> "none", clauses |-> <<>>, asg |-> <<>>, val |-> FALSE]

\* `lit in assignment` on a Python list: some element equals lit.
In(lit, asg) == \E i \in DOMAIN asg : VariableEq(asg[i], lit)

(***************************************************************************)
(* Clause primitives                                                       *)
(***************************************************************************)
is_satisfied_vacuous(clause, asg) ==
    clause = <<>> \/ \E i \in DOMAIN clause : In(clause[i], asg)

\* is_satisfied (the same body in dpll_solver.py and backtrack_solver.py)
is_satisfied(clause, asg) == \E i \in DOMAIN clause : In(clause[i], asg)

is_falsified_any(clause, asg) == \E i \in DOMAIN clause : In(Neg(clause[i]), asg)

is_falsified_nonempty(clause, asg) ==
    clause /= <<>> /\ \A i \in DOMAIN clause : In(Neg(clause[i]), asg)

\* is_falsified: the loop returns False on the first literal whose negation
\* is not assigned, and True when it runs to the end.
is_falsified(clause, asg) == \A i \in DOMAIN clause : In(Neg(clause[i]), asg)

evaluate_formula_any(clauses, asg) ==
    \E i \in DOMAIN clauses : is_satisfied(clauses[i], asg)

\* evaluate_formula
evaluate_formula(clauses, asg) ==
    \A i \in DOMAIN clauses : is_satisfied(clauses[i], asg)

keep_false_literals(clause, asg) == clause

\* remove_false_literals (nested in both DPLL functions)
remove_false_literals(clause, asg) ==
    LET Keep(lit) == ~In(Neg(lit), asg) IN SelectSeq(clause, Keep)

(***************************************************************************)
(* DPLL: the body of the while-loop, shared by dpll_all_solutions and      *)
(* dpll_first_solution (the two functions repeat the same statements).     *)
(***************************************************************************)
RemoveSatisfiedByName(clauses, asg) ==
    LET Open(c) == ~\E i \in DOMAIN c : In(c[i], asg) \/ In(Neg(c[i]), asg)
    IN  SelectSeq(clauses, Open)

\* clauses = [c for c in clauses if not is_satisfied(c, assignment)]
RemoveSatisfied(clauses, asg) ==
    LET Open(c) == ~is_satisfied(c, asg) IN SelectSeq(clauses, Open)

SimplifyDropEmptied(clauses, asg) ==
    LET open == RemoveSatisfied(clauses, asg)
        reduced == [i \in DOMAIN open |-> remove_false_literals(open[i], asg)]
        NonEmpty(c) == c /= <<>>
    IN  SelectSeq(reduced, NonEmpty)

\* The two list comprehensions that open an iteration of the loop.
Simplify(clauses, asg) ==
    LET open == RemoveSatisfied(clauses, asg)
    IN  [i \in DOMAIN open |-> remove_false_literals(open[i], asg)]

\* any(len(c) == 0 for c in clauses)
HasEmptyClause(clauses) == \E i \in DOMAIN clauses : Len(clauses[i]) = 0

\* unit_clauses = [c[0] for c in clauses if len(c) == 1 and c[0] not in
\*                 assignment and -c[0] not in assignment]
unit_clauses(clauses, asg) ==
    LET IsUnit(c) == Len(c) = 1 /\ ~In(c[1], asg) /\ ~In(Neg(c[1]), asg)
        units == SelectSeq(clauses, IsUnit)
    IN  [i \in DOMAIN units |-> units[i][1]]

UnitConflictNever(units) == FALSE

\* The for-loop over unit_clauses returns as soon as it meets a literal
\* whose negation is also a unit literal.
UnitConflict(units) == \E i \in DOMAIN units : In(Neg(units[i]), units)

BranchLiteralLast(clauses) == clauses[1][Len(clauses[1])]

\* The branching literal: the first literal of the first clause.
BranchLiteral(clauses) == clauses[1][1]

\* An invocation of a DPLL function: its locals and its position.
\*   pc = "loop"   at the top of the while-loop
\*   pc = "call1"  the first recursive call has been made
\*   pc = "call2"  the second recursive call has been made
DpllFrame(clauses, asg, pc) == [clauses |-> clauses, assignment |-> asg, pc |-> pc]

Top == stack[Len(stack)]
Pop == SubSeq(stack, 1, Len(stack) - 1)
ReplaceTop(frame) == [stack EXCEPT ![Len(stack)] = frame]

Running(m) == mode = m /\ stack /= <<>>
AtLoop(m) == Running(m) /\ Top.pc = "loop"
Simplified == Simplify(Top.clauses, Top.assignment)
Units == unit_clauses(Simplified, Top.assignment)

\* The guards of the exits of one loop iteration, in program order.
IsSat == Simplified = <<>>
IsEmptyClause == ~IsSat /\ HasEmptyClause(Simplified)
IsUnitConflict == ~IsSat /\ ~HasEmptyClause(Simplified) /\ UnitConflict(Units)
IsPropagate ==
    ~IsSat /\ ~HasEmptyClause(Simplified) /\ ~UnitConflict(Units) /\ Units /= <<>>
IsBranch == ~IsSat /\ ~HasEmptyClause(Simplified) /\ Units = <<>>

(***************************************************************************)
(* dpll_all_solutions / find_all_solutions                                 *)
(***************************************************************************)
\* find_all_solutions: solutions = []; dpll_all_solutions(clauses, [], solutions)
FindAllCall ==
    /\ mode = "idle"
    /\ mode' = "all"
    /\ solutions' = <<>>
    /\ stack' = <<DpllFrame(formula, <<>>, "loop")>>
    /\ prev' = last
    /\ last' = NoCall
    /\ retval' = None
    /\ UNCHANGED <<formula, assignment, variables, otherVars>>

\* if not clauses: solutions.append(assignment[:]); return
AllSat ==
    /\ AtLoop("all")
    /\ IsSat
    /\ solutions' = Append(solutions, Top.assignment)
    /\ stack' = Pop
    /\ retval' = None
    /\ UNCHANGED <<formula, mode, assignment, variables, prev, last, otherVars>>

\* if any(len(c) == 0 for c in clauses): return
AllEmptyClause ==
    /\ AtLoop("all")
    /\ IsEmptyClause
    /\ stack' = Pop
    /\ retval' = None
    /\ UNCHANGED <<formula, mode, solutions, assignment, variables, prev, last, otherVars>>

\* if -lit in unit_clauses: return
AllUnitConflict ==
    /\ AtLoop("all")
    /\ IsUnitConflict
    /\ stack' = Pop
    /\ retval' = None
    /\ UNCHANGED <<formula, mode, solutions, assignment, variables, prev, last, otherVars>>

AllPropagateShared ==
    /\ AtLoop("all")
    /\ IsPropagate
    /\ stack' = [k \in DOMAIN stack |->
                     IF k = Len(stack)
                     THEN DpllFrame(Simplified, Top.assignment \o Units, "loop")
                     ELSE [stack[k] EXCEPT !.clauses = Simplified]]
    /\ UNCHANGED <<formula, mode, solutions, assignment, variables, retval, prev, last, otherVars>>

AllPropagateByCall ==
    /\ AtLoop("all")
    /\ IsPropagate
    /\ stack' = Append(ReplaceTop(DpllFrame(Simplified, Top.assignment, "call2")),
                       DpllFrame(Simplified, Top.assignment \o Units, "loop"))
    /\ UNCHANGED <<formula, mode, solutions, assignment, variables, retval, prev, last, otherVars>>

\* assignment = assignment + filtered_unit_clauses; continue
AllPropagate ==
    /\ AtLoop("all")
    /\ IsPropagate
    /\ stack' = ReplaceTop(DpllFrame(Simplified, Top.assignment \o Units, "loop"))
    /\ UNCHANGED <<formula, mode, solutions, assignment, variables, retval, prev, last, otherVars>>

AllBranchTruePositiveFirst ==
    /\ AtLoop("all")
    /\ IsBranch
    /\ stack' = Append(ReplaceTop(DpllFrame(Simplified, Top.assignment, "call1")),
                       DpllFrame(Simplified,
                                 Append(Top.assignment,
                                        Variable(BranchLiteral(Simplified).name, TRUE)),
                                 "loop"))
    /\ UNCHANGED <<formula, mode, solutions, assignment, variables, retval, prev, last, otherVars>>

AllBranchTrueNoLiteral ==
    /\ AtLoop("all")
    /\ IsBranch
    /\ stack' = Append(ReplaceTop(DpllFrame(Simplified, Top.assignment, "call1")),
                       DpllFrame(Simplified, Top.assignment, "loop"))
    /\ UNCHANGED <<formula, mode, solutions, assignment, variables, retval, prev, last, otherVars>>

\* dpll_all_solutions(clauses[:], assignment + [lit], solutions)
AllBranchTrue ==
    /\ AtLoop("all")
    /\ IsBranch
    /\ stack' = Append(ReplaceTop(DpllFrame(Simplified, Top.assignment, "call1")),
                       DpllFrame(Simplified,
                                 Append(Top.assignment, BranchLiteral(Simplified)),
                                 "loop"))
    /\ UNCHANGED <<formula, mode, solutions, assignment, variables, retval, prev, last, otherVars>>

AllBranchFalseSameLiteral ==
    /\ Running("all")
    /\ Top.pc = "call1"
    /\ stack' = Append(ReplaceTop([Top EXCEPT !.pc = "call2"]),
                       DpllFrame(Top.clauses,
                                 Append(Top.assignment, BranchLiteral(Top.clauses)),
                                 "loop"))
    /\ UNCHANGED <<formula, mode, solutions, assignment, variables, retval, prev, last, otherVars>>

AllBranchFalseShortCircuit ==
    /\ Running("all")
    /\ Top.pc = "call1"
    /\ stack' = IF solutions /= <<>>
                THEN Pop
                ELSE Append(ReplaceTop([Top EXCEPT !.pc = "call2"]),
                            DpllFrame(Top.clauses,
                                      Append(Top.assignment,
                                             Neg(BranchLiteral(Top.clauses))),
                                      "loop"))
    /\ UNCHANGED <<formula, mode, solutions, assignment, variables, retval, prev, last, otherVars>>

\* dpll_all_solutions(clauses[:], assignment + [-lit], solutions)
AllBranchFalse ==
    /\ Running("all")
    /\ Top.pc = "call1"
    /\ stack' = Append(ReplaceTop([Top EXCEPT !.pc = "call2"]),
                       DpllFrame(Top.clauses,
                                 Append(Top.assignment, Neg(BranchLiteral(Top.clauses))),
                                 "loop"))
    /\ UNCHANGED <<formula, mode, solutions, assignment, variables, retval, prev, last, otherVars>>

\* return  # after trying both branches
AllBranchReturn ==
    /\ Running("all")
    /\ Top.pc = "call2"
    /\ stack' = Pop
    /\ retval' = None
    /\ UNCHANGED <<formula, mode, solutions, assignment, variables, prev, last, otherVars>>

\* find_all_solutions: return solutions
FindAllReturn ==
    /\ mode = "all"
    /\ stack = <<>>
    /\ mode' = "idle"
    /\ last' = [entry |-> "all", res |-> List(solutions)]
    /\ UNCHANGED <<formula, stack, solutions, assignment, variables, retval, prev, otherVars>>

(***************************************************************************)
(* dpll_first_solution / find_first_solution                               *)
(***************************************************************************)
\* find_first_solution: return dpll_first_solution(clauses, [])
FindFirstCall ==
    /\ mode = "idle"
    /\ mode' = "first"
    /\ stack' = <<DpllFrame(formula, <<>>, "loop")>>
    /\ prev' = last
    /\ last' = NoCall
    /\ retval' = None
    /\ UNCHANGED <<formula, solutions, assignment, variables, otherVars>>

FirstSatReturnsNone ==
    /\ AtLoop("first")
    /\ IsSat
    /\ stack' = Pop
    /\ retval' = None
    /\ UNCHANGED <<formula, mode, solutions, assignment, variables, prev, last, otherVars>>

\* if not clauses: return assignment
FirstSat ==
    /\ AtLoop("first")
    /\ IsSat
    /\ stack' = Pop
    /\ retval' = List(Top.assignment)
    /\ UNCHANGED <<formula, mode, solutions, assignment, variables, prev, last, otherVars>>

\* if any(len(c) == 0 for c in clauses): return
FirstEmptyClause ==
    /\ AtLoop("first")
    /\ IsEmptyClause
    /\ stack' = Pop
    /\ retval' = None
    /\ UNCHANGED <<formula, mode, solutions, assignment, variables, prev, last, otherVars>>

\* if -lit in unit_clauses: return
FirstUnitConflict ==
    /\ AtLoop("first")
    /\ IsUnitConflict
    /\ stack' = Pop
    /\ retval' = None
    /\ UNCHANGED <<formula, mode, solutions, assignment, variables, prev, last, otherVars>>

FirstPropagateUnitsFirst ==
    /\ AtLoop("first")
    /\ IsPropagate
    /\ stack' = ReplaceTop(DpllFrame(Simplified, Units \o Top.assignment, "loop"))
    /\ UNCHANGED <<formula, mode, solutions, assignment, variables, retval, prev, last, otherVars>>

\* assignment = assignment + filtered_unit_clauses; continue
FirstPropagate ==
    /\ AtLoop("first")
    /\ IsPropagate
    /\ stack' = ReplaceTop(DpllFrame(Simplified, Top.assignment \o Units, "loop"))
    /\ UNCHANGED <<formula, mode, solutions, assignment, variables, retval, prev, last, otherVars>>

\* dpll_first_solution(clauses, assignment + [lit])
FirstBranchTrue ==
    /\ AtLoop("first")
    /\ IsBranch
    /\ stack' = Append(ReplaceTop(DpllFrame(Simplified, Top.assignment, "call1")),
                       DpllFrame(Simplified,
                                 Append(Top.assignment, BranchLiteral(Simplified)),
                                 "loop"))
    /\ UNCHANGED <<formula, mode, solutions, assignment, variables, retval, prev, last, otherVars>>

\* dpll_first_solution(clauses, assignment + [-lit]); the value the first
\* call returned is not bound to anything.
FirstBranchFalse ==
    /\ Running("first")
    /\ Top.pc = "call1"
    /\ stack' = Append(ReplaceTop([Top EXCEPT !.pc = "call2"]),
                       DpllFrame(Top.clauses,
                                 Append(Top.assignment, Neg(BranchLiteral(Top.clauses))),
                                 "loop"))
    /\ UNCHANGED <<formula, mode, solutions, assignment, variables, retval, prev, last, otherVars>>

\* The bare `return` after the two calls: the invocation returns None
\* whatever the calls returned.
FirstBranchReturn ==
    /\ Running("first")
    /\ Top.pc = "call2"
    /\ stack' = Pop
    /\ retval' = None
    /\ UNCHANGED <<formula, mode, solutions, assignment, variables, prev, last, otherVars>>

\* find_first_solution returns what the outermost invocation returned.
FindFirstReturn ==
    /\ mode = "first"
    /\ stack = <<>>
    /\ mode' = "idle"
    /\ last' = [entry |-> "first", res |-> retval]
    /\ UNCHANGED <<formula, stack, solutions, assignment, variables, retval, prev, otherVars>>

(***************************************************************************)
(* backtrack_solver.py                                                     *)
(***************************************************************************)
\* The set `variables` built by the two loops of get_all_variables.
VariableNames(clauses) ==
    UNION {{clauses[i][j].name : j \in DOMAIN clauses[i]} : i \in DOMAIN clauses}

\* list(variables): the elements of a Python set in some iteration order.
Orders(S) ==
    {f \in [1..Cardinality(S) -> S] : \A i, j \in DOMAIN f : i /= j => f[i] /= f[j]}

\* sorted(xs): ascending order (names are ranks, see the head of the module).
RECURSIVE sorted(_)
sorted(xs) ==
    IF xs = <<>> THEN <<>>
    ELSE LET m == CHOOSE i \in DOMAIN xs : \A j \in DOMAIN xs : xs[i] <= xs[j]
             rest == [k \in 1..(Len(xs) - 1) |-> IF k < m THEN xs[k] ELSE xs[k + 1]]
         IN  <<xs[m]>> \o sorted(rest)

\* get_all_variables, given the iteration order of the set.
Unsorted(listed) == listed

get_all_variables(listed) == sorted(listed)

\* any(is_falsified(clause, assignment) for clause in clauses)
AnyFalsified(clauses, asg) == \E i \in DOMAIN clauses : is_falsified(clauses[i], asg)

\* backtrack_all_solutions is running, called by either of its entry points.
RunningBt == mode \in {"bt", "btv"} /\ stack /= <<>>

\* An invocation of backtrack_all_solutions: var_index and its position.
\*   pc = "start"  at the top of the body
\*   pc = "true"   the positive literal is appended (and explored)
\*   pc = "false"  the negative literal is appended (and explored)
BtFrame(var_index, pc) == [var_index |-> var_index, pc |-> pc]

CurrentVarFirst == Variable(variables[1], TRUE)

\* var = Variable(variables[var_index])
CurrentVar == Variable(variables[Top.var_index + 1], TRUE)

PopLastNoop(asg) == asg

\* assignment.pop()
PopLast(asg) == SubSeq(asg, 1, Len(asg) - 1)

\* find_all_solutions_backtrack_no_timing: variables =
\* get_all_variables(clauses); solutions = [];
\* backtrack_all_solutions(clauses, variables, [], 0, solutions)
FindBtCall ==
    /\ mode = "idle"
    /\ mode' = "bt"
    /\ \E listed \in Orders(VariableNames(formula)) :
           variables' = get_all_variables(listed)
    /\ solutions' = <<>>
    /\ assignment' = <<>>
    /\ stack' = <<BtFrame(0, "start")>>
    /\ prev' = last
    /\ last' = NoCall
    /\ retval' = None
    /\ UNCHANGED <<formula, otherVars>>

\* if var_index == len(variables): record the assignment if it evaluates
\* to true; return
BtLeaf ==
    /\ RunningBt
    /\ Top.pc = "start"
    /\ Top.var_index = Len(variables)
    /\ solutions' = IF evaluate_formula(formula, assignment)
                    THEN Append(solutions, assignment)
                    ELSE solutions
    /\ stack' = Pop
    /\ retval' = None
    /\ UNCHANGED <<formula, mode, assignment, variables, prev, last, otherVars>>

\* assignment.append(var); recurse unless a clause is falsified
BtTryTrue ==
    /\ RunningBt
    /\ Top.pc = "start"
    /\ Top.var_index /= Len(variables)
    /\ assignment' = Append(assignment, CurrentVar)
    /\ stack' = IF ~AnyFalsified(formula, assignment')
                THEN Append(ReplaceTop([Top EXCEPT !.pc = "true"]),
                            BtFrame(Top.var_index + 1, "start"))
                ELSE ReplaceTop([Top EXCEPT !.pc = "true"])
    /\ UNCHANGED <<formula, mode, solutions, variables, retval, prev, last, otherVars>>

\* assignment.pop(); assignment.append(-var); recurse unless a clause is
\* falsified
BtTryFalse ==
    /\ RunningBt
    /\ Top.pc = "true"
    /\ assignment' = Append(PopLast(assignment), Neg(CurrentVar))
    /\ stack' = IF ~AnyFalsified(formula, assignment')
                THEN Append(ReplaceTop([Top EXCEPT !.pc = "false"]),
                            BtFrame(Top.var_index + 1, "start"))
                ELSE ReplaceTop([Top EXCEPT !.pc = "false"])
    /\ UNCHANGED <<formula, mode, solutions, variables, retval, prev, last, otherVars>>

BtReturnNoPop ==
    /\ RunningBt
    /\ Top.pc = "false"
    /\ stack' = Pop
    /\ retval' = None
    /\ UNCHANGED <<formula, mode, solutions, assignment, variables, prev, last, otherVars>>

\* assignment.pop(); the function ends
BtReturn ==
    /\ RunningBt
    /\ Top.pc = "false"
    /\ assignment' = PopLast(assignment)
    /\ stack' = Pop
    /\ retval' = None
    /\ UNCHANGED <<formula, mode, solutions, variables, prev, last, otherVars>>

\* find_all_solutions_backtrack_no_timing: return solutions
FindBtReturn ==
    /\ mode = "bt"
    /\ stack = <<>>
    /\ mode' = "idle"
    /\ last' = [entry |-> "bt", res |-> List(solutions)]
    /\ UNCHANGED <<formula, stack, solutions, assignment, variables, retval, prev, otherVars>>

verify_solution_first_clause(clauses, asg) ==
    clauses = <<>> \/ is_satisfied(clauses[1], asg)

\* verify_solution: the loop over the clauses returns False at the first
\* clause that is not satisfied, and True when it runs to the end (the
\* per-clause lines it prints are not modelled).
RECURSIVE verify_from(_, _, _)
verify_from(clauses, asg, i) ==
    IF i > Len(clauses) THEN TRUE
    ELSE IF ~is_satisfied(clauses[i], asg) THEN FALSE
    ELSE verify_from(clauses, asg, i + 1)

verify_solution(clauses, asg) == verify_from(clauses, asg, 1)

\* find_all_solutions_backtrack: variables = get_all_variables(clauses);
\* solutions = []; backtrack_all_solutions(clauses, variables, [], 0, solutions)
FindBtvCall ==
    /\ mode = "idle"
    /\ mode' = "btv"
    /\ \E listed \in Orders(VariableNames(formula)) :
           variables' = get_all_variables(listed)
    /\ solutions' = <<>>
    /\ assignment' = <<>>
    /\ stack' = <<BtFrame(0, "start")>>
    /\ prev' = last
    /\ last' = NoCall
    /\ retval' = None
    /\ UNCHANGED <<formula, otherVars>>

\* find_all_solutions_backtrack: the loop that keeps the solutions
\* verify_solution accepts, and return verified_solutions, execution_time.
\* The second component, a difference of two clock readings, is left out.
FindBtvReturn ==
    /\ mode = "btv"
    /\ stack = <<>>
    /\ mode' = "idle"
    /\ LET Verified(solution) == verify_solution(formula, solution)
       IN  last' = [entry |-> "btv",
                    res |-> [kind |-> "tuple", val |-> SelectSeq(solutions, Verified)]]
    /\ UNCHANGED <<formula, stack, solutions, assignment, variables, retval, prev, otherVars>>

(***************************************************************************)
(* The solver specification: a caller holds one formula and invokes the    *)
(* entry points on it, in any order and any number of times.               *)
(***************************************************************************)
Init ==
    /\ formula \in FormulaSet
    /\ mode = "idle"
    /\ stack = <<>>
    /\ solutions = <<>>
    /\ assignment = <<>>
    /\ variables = <<>>
    /\ retval = None
    /\ prev = NoCall
    /\ last = NoCall
    /\ litA = NoLit
    /\ litA0 = NoLit
    /\ negA = NoLit
    /\ negNegA = NoLit
    /\ litB = NoLit
    /\ cmp = NoCmp
    /\ cmpNeg = NoCmpNeg
    /\ primRes = NoPrim

Next ==
    \/ FindAllCall \/ AllSat \/ AllEmptyClause \/ AllUnitConflict \/ AllPropagate
    \/ AllBranchTrue \/ AllBranchFalse \/ AllBranchReturn \/ FindAllReturn
    \/ FindFirstCall \/ FirstSat \/ FirstEmptyClause \/ FirstUnitConflict
    \/ FirstPropagate \/ FirstBranchTrue \/ FirstBranchFalse \/ FirstBranchReturn
    \/ FindFirstReturn
    \/ FindBtCall \/ BtLeaf \/ BtTryTrue \/ BtTryFalse \/ BtReturn \/ FindBtReturn

Spec == Init /\ [][Next]_vars

(***************************************************************************)
(* The enumerator specification: a caller holds one formula and invokes    *)
(* the two entry points of backtrack_solver.py on it.                      *)
(***************************************************************************)
NextBt ==
    \/ FindBtCall \/ FindBtvCall
    \/ BtLeaf \/ BtTryTrue \/ BtTryFalse \/ BtReturn
    \/ FindBtReturn \/ FindBtvReturn

SpecBt == Init /\ [][NextBt]_vars

(***************************************************************************)
(* The run specification: a caller holds one formula and invokes one entry *)
(* point on it.  The program is single-threaded and synchronous: once an   *)
(* entry point is called, the interpreter executes its next statement as   *)
(* long as there is one, which is weak fairness of the steps RunStep.      *)
(***************************************************************************)
\* The call of an entry point by a caller that has called nothing yet.
FirstCall ==
    /\ prev = NoCall
    /\ last = NoCall
    /\ FindAllCall \/ FindFirstCall \/ FindBtCall \/ FindBtvCall

\* The steps of the called functions, and the returns of the entry points.
RunStep ==
    \/ AllSat \/ AllEmptyClause \/ AllUnitConflict \/ AllPropagate
    \/ AllBranchTrue \/ AllBranchFalse \/ AllBranchReturn \/ FindAllReturn
    \/ FirstSat \/ FirstEmptyClause \/ FirstUnitConflict
    \/ FirstPropagate \/ FirstBranchTrue \/ FirstBranchFalse \/ FirstBranchReturn
    \/ FindFirstReturn
    \/ BtLeaf \/ BtTryTrue \/ BtTryFalse \/ BtReturn \/ FindBtReturn \/ FindBtvReturn

NextRun == FirstCall \/ RunStep

SpecRun == Init /\ [][NextRun]_vars /\ WF_vars(RunStep)

(***************************************************************************)
(* The literal specification: a Variable object is constructed and         *)
(* negated, and the result negated again.                                  *)
(***************************************************************************)
NumLitNames == 20

LitObjects == {Variable(n, p) : n \in 1..NumLitNames, p \in BOOLEAN}

InitLit ==
    /\ formula = <<>>
    /\ mode = "idle"
    /\ stack = <<>>
    /\ solutions = <<>>
    /\ assignment = <<>>
    /\ variables = <<>>
    /\ retval = None
    /\ prev = NoCall
    /\ last = NoCall
    /\ litA \in LitObjects
    /\ litA0 = litA
    /\ negA = NoLit
    /\ negNegA = NoLit
    /\ litB \in LitObjects
    /\ cmp = NoCmp
    /\ cmpNeg = NoCmpNeg
    /\ primRes = NoPrim

\* negA = -litA
NegateA ==
    /\ negA = NoLit
    /\ litA' = VariableNeg(litA).self
    /\ negA' = VariableNeg(litA).result
    /\ UNCHANGED <<litA0, negNegA, litB, cmp, cmpNeg, primRes, solverVars>>

\* negNegA = -negA
NegateNegA ==
    /\ negA /= NoLit
    /\ negNegA = NoLit
    /\ negA' = VariableNeg(negA).self
    /\ negNegA' = VariableNeg(negA).result
    /\ UNCHANGED <<litA, litA0, litB, cmp, cmpNeg, primRes, solverVars>>

\* litA == litB, hash(litA), hash(litB)
CompareAB ==
    /\ ~cmp.called
    /\ cmp' = [called |-> TRUE, eq |-> VariableEq(litA, litB),
               hashA |-> VariableHash(litA), hashB |-> VariableHash(litB)]
    /\ UNCHANGED <<litA, litA0, negA, negNegA, litB, cmpNeg, primRes, solverVars>>

\* litA == -litA, on the object -litA already built
CompareWithNeg ==
    /\ negA /= NoLit
    /\ ~cmpNeg.called
    /\ cmpNeg' = [called |-> TRUE, eq |-> VariableEq(litA, negA)]
    /\ UNCHANGED <<litA, litA0, negA, negNegA, litB, cmp, primRes, solverVars>>

NextLit == NegateA \/ NegateNegA \/ CompareAB \/ CompareWithNeg

SpecLit == InitLit /\ [][NextLit]_vars

(***************************************************************************)
(* The primitive specification: a caller holds a formula and applies the   *)
(* clause primitives of backtrack_solver.py to its clauses and to any      *)
(* list of literals, consistent or not.                                    *)
(***************************************************************************)
AsgSet == SeqsUpTo(Literals, NumVars)

InitPrim ==
    /\ formula \in SeqsUpTo(ClauseSet, MaxClauses - 1)
    /\ mode = "idle"
    /\ stack = <<>>
    /\ solutions = <<>>
    /\ assignment = <<>>
    /\ variables = <<>>
    /\ retval = None
    /\ prev = NoCall
    /\ last = NoCall
    /\ litA = NoLit
    /\ litA0 = NoLit
    /\ negA = NoLit
    /\ negNegA = NoLit
    /\ litB = NoLit
    /\ cmp = NoCmp
    /\ cmpNeg = NoCmpNeg
    /\ primRes = NoPrim

\* is_satisfied(clause, assignment)
CallIsSatisfied ==
    /\ \E i \in DOMAIN formula, asg \in AsgSet :
           primRes' = [fn |-> "is_satisfied", clauses |-> <<formula[i]>>, asg |-> asg,
                       val |-> is_satisfied(formula[i], asg)]
    /\ UNCHANGED <<solverVars, litVars>>

\* is_falsified(clause, assignment)
CallIsFalsified ==
    /\ \E i \in DOMAIN formula, asg \in AsgSet :
           primRes' = [fn |-> "is_falsified", clauses |-> <<formula[i]>>, asg |-> asg,
                       val |-> is_falsified(formula[i], asg)]
    /\ UNCHANGED <<solverVars, litVars>>

\* evaluate_formula(clauses, assignment)
CallEvaluateFormula ==
    /\ \E asg \in AsgSet :
           primRes' = [fn |-> "evaluate_formula", clauses |-> formula, asg |-> asg,
                       val |-> evaluate_formula(formula, asg)]
    /\ UNCHANGED <<solverVars, litVars>>

NextPrim == CallIsSatisfied \/ CallIsFalsified \/ CallEvaluateFormula

SpecPrim == InitPrim /\ [][NextPrim]_vars

(***************************************************************************)
(* Reference semantics of CNF formulas, used to state the properties.      *)
(***************************************************************************)
\* The literals of a list, as a set.
LitSet(asg) == {asg[i] : i \in DOMAIN asg}

\* Every clause of f contains a literal of asg.
SatisfiesAll(f, asg) ==
    \A i \in DOMAIN f : \E j \in DOMAIN f[i] : f[i][j] \in LitSet(asg)

\* The rows of the truth table over the variables of f that satisfy f.
Models(f) ==
    {v \in [VariableNames(f) -> BOOLEAN] :
        \A i \in DOMAIN f : \E j \in DOMAIN f[i] : v[f[i][j].name] = f[i][j].positive}

\* A row of the truth table as a set of literals.
RowLits(v) == {Variable(n, v[n]) : n \in DOMAIN v}

Satisfiable(f) == Models(f) /= {}

\* The returned lists of an all-solutions result, each as a set of literals.
SolutionSets(res) == {LitSet(res.val[i]) : i \in DOMAIN res.val}

ContainsEmptyClause(f) == \E i \in DOMAIN f : f[i] = <<>>

(***************************************************************************)
(* Properties                                                              *)
(***************************************************************************)
\* C1 (soundness): every assignment returned by find_first_solution, by
\* find_all_solutions and by the backtracking entry point satisfies every
\* clause of the caller's formula.
Soundness ==
    /\ (last.entry = "first" /\ last.res.kind = "list")
           => SatisfiesAll(formula, last.res.val)
    /\ last.entry \in {"all", "bt"}
           => \A i \in DOMAIN last.res.val : SatisfiesAll(formula, last.res.val[i])

\* Both all-solutions entry points and find_first_solution have returned
\* assignments for a formula of several clauses.
SoundnessWitness ==
    /\ Len(formula) >= 2
    /\ Cardinality(VariableNames(formula)) = NumVars
    /\ \/ /\ prev.entry = "all" /\ Len(prev.res.val) >= 2
          /\ last.entry = "bt" /\ Len(last.res.val) >= 2
       \/ /\ prev.entry = "bt" /\ Len(prev.res.val) >= 2
          /\ last.entry = "first" /\ last.res.kind = "list" /\ last.res.val /= <<>>

\* C2 (agreement): find_all_solutions and the backtracking entry point
\* return the same set of assignments, each taken as a set of literals.
Agreement ==
    (prev.entry = "all" /\ last.entry = "bt")
        => SolutionSets(prev.res) = SolutionSets(last.res)

\* C3 (completeness): each all-solutions entry point returns as many
\* assignments as the truth table of the formula has satisfying rows.
CompletenessCount ==
    last.entry \in {"all", "bt"}
        => Len(last.res.val) = Cardinality(Models(formula))

\* C4: on a satisfiable formula find_first_solution returns an assignment,
\* not None.
FirstFindsSatisfiable ==
    (last.entry = "first" /\ Satisfiable(formula)) => last.res.kind = "list"

\* C5: the backtracking enumerator returns exactly the satisfying rows of
\* the truth table of the formula, each exactly once.
BacktrackExact ==
    last.entry = "bt" =>
        /\ SolutionSets(last.res) = {RowLits(v) : v \in Models(formula)}
        /\ Len(last.res.val) = Cardinality(Models(formula))
        /\ \A i, j \in DOMAIN last.res.val :
               i /= j => last.res.val[i] /= last.res.val[j]

\* The enumerator has returned several solutions of a formula on which it
\* also pruned a branch.
BacktrackExactWitness ==
    /\ last.entry = "bt"
    /\ Len(last.res.val) = 2
    /\ Cardinality(VariableNames(formula)) = NumVars
    /\ Len(formula) >= 2

\* C6 (UNSAT reporting): on an unsatisfiable formula find_first_solution
\* returns None and both all-solutions entry points return an empty list.
UnsatReported ==
    ~Satisfiable(formula) =>
        /\ last.entry = "first" => last.res = None
        /\ last.entry \in {"all", "bt"} => last.res = List(<<>>)

\* The three entry points have reported an unsatisfiable formula without
\* an empty clause, e.g. [[p], [-p]].
UnsatReportedWitness ==
    /\ ~Satisfiable(formula)
    /\ ~ContainsEmptyClause(formula)
    /\ Len(formula) = 2
    /\ \/ prev.entry = "first" /\ last.entry = "all"
       \/ prev.entry = "all" /\ last.entry = "bt"

\* C7: on the empty formula find_first_solution returns the empty list
\* from its first loop iteration (no literal is propagated, no recursive
\* call is made), and that value differs from the None of UNSAT formulas.
EmptyFormulaFirst ==
    formula = <<>> =>
        /\ (mode = "first" /\ stack /= <<>>)
               => Len(stack) = 1 /\ Top.pc = "loop" /\ Top.assignment = <<>>
        /\ last.entry = "first" => (last.res = List(<<>>) /\ last.res /= None)

EmptyFormulaFirstWitness ==
    formula = <<>> /\ last.entry = "first" /\ prev.entry = "first"

\* C8: a formula with an empty clause at any position is reported UNSAT by
\* the three entry points.
EmptyClauseUnsat ==
    ContainsEmptyClause(formula) =>
        /\ last.entry = "first" => last.res = None
        /\ last.entry \in {"all", "bt"} => last.res = List(<<>>)

\* The empty clause is the last of three clauses, the others being
\* satisfiable together, and the entry points have returned.
EmptyClauseUnsatWitness ==
    /\ Len(formula) = 3
    /\ formula[3] = <<>>
    /\ Satisfiable(SubSeq(formula, 1, 2))
    /\ formula[1] /= <<>> /\ formula[2] /= <<>>
    /\ \/ prev.entry = "first" /\ last.entry = "bt"
       \/ prev.entry = "bt" /\ last.entry = "all"

\* C9 (determinism): two invocations of the same entry point on the same
\* formula return the same value: the same assignments in the same order,
\* each with its literals in the same order.
Determinism ==
    (prev.entry = last.entry /\ last.entry /= "none") => prev.res = last.res

\* The enumerator has run twice on a formula of NumVars variables with
\* solutions; so has find_all_solutions on some formula.
DeterminismWitness ==
    /\ prev.entry = "bt"
    /\ last.entry = "bt"
    /\ Cardinality(VariableNames(formula)) = NumVars
    /\ Len(last.res.val) >= 2

\* C10: -lit has the name of lit and the opposite polarity, -(-lit) == lit,
\* and neither call changes the object it is applied to.
NegInvolution ==
    /\ negA /= NoLit =>
           /\ negA.name = litA0.name
           /\ negA.positive = ~litA0.positive
           /\ litA = litA0
    /\ negNegA /= NoLit => VariableEq(negNegA, litA0)

NegInvolutionWitness ==
    negNegA /= NoLit /\ ~litA0.positive

\* C11: litA == litB exactly when the names and the polarities agree; equal
\* literals have equal hashes; a literal is not equal to its negation.
LiteralValueSemantics ==
    /\ cmp.called =>
           /\ cmp.eq <=> (litA.name = litB.name /\ litA.positive = litB.positive)
           /\ cmp.eq => cmp.hashA = cmp.hashB
    /\ cmpNeg.called => ~cmpNeg.eq

\* Two literals of the same name and opposite polarity have been compared,
\* and a literal has been compared with its negation.
LiteralValueSemanticsWitness ==
    /\ cmp.called
    /\ litA.name = litB.name
    /\ litA.positive /= litB.positive
    /\ cmpNeg.called

\* No variable name occurs in asg with both polarities.
Consistent(asg) ==
    \A i, j \in DOMAIN asg :
        ~(asg[i].name = asg[j].name /\ asg[i].positive /= asg[j].positive)

\* C12 (assignment consistency): the assignment of every active DPLL
\* invocation, the working assignment of the enumerator, every recorded
\* solution and every returned assignment hold at most one polarity per
\* variable name.
AssignmentConsistency ==
    /\ mode \in {"first", "all"} =>
           \A k \in DOMAIN stack : Consistent(stack[k].assignment)
    /\ mode \notin {"first", "all"} => Consistent(assignment)
    /\ \A i \in DOMAIN solutions : Consistent(solutions[i])
    /\ Consistent(retval.val)
    /\ last.entry = "first" => Consistent(last.res.val)
    /\ last.entry \in {"all", "bt"} =>
           \A i \in DOMAIN last.res.val : Consistent(last.res.val[i])

\* A nested DPLL invocation holds a decision literal and a propagated one.
AssignmentConsistencyWitness ==
    /\ mode = "all"
    /\ Len(stack) = 2
    /\ Top.pc = "loop"
    /\ Len(Top.assignment) = 2
    /\ Top.assignment[1].name /= Top.assignment[2].name

\* The literal of the same name and the other polarity.
Opposite(lit) == [name |-> lit.name, positive |-> ~lit.positive]

\* Every literal of the clause is false under asg.
AllLiteralsFalse(clause, asg) ==
    \A j \in DOMAIN clause : Opposite(clause[j]) \in LitSet(asg)

EvaluateFormulaSemantics ==
    /\ primRes.fn = "is_satisfied" =>
           primRes.val = (\E j \in DOMAIN primRes.clauses[1] :
                             primRes.clauses[1][j] \in LitSet(primRes.asg))
    /\ primRes.fn = "evaluate_formula" =>
           /\ primRes.val = SatisfiesAll(primRes.clauses, primRes.asg)
           /\ primRes.clauses = <<>> => primRes.val
           /\ ContainsEmptyClause(primRes.clauses) => ~primRes.val

\* evaluate_formula has been applied to a formula whose first clause the
\* assignment satisfies and whose second clause is empty.
EvaluateFormulaSemanticsWitness ==
    /\ primRes.fn = "evaluate_formula"
    /\ Len(primRes.clauses) = 2
    /\ primRes.clauses[2] = <<>>
    /\ \E j \in DOMAIN primRes.clauses[1] :
           primRes.clauses[1][j] \in LitSet(primRes.asg)

\* C15: whenever the caller is free to call them, verify_solution and
\* evaluate_formula return the same boolean on its formula and any list of
\* literals; and find_all_solutions_backtrack returns the solution list
\* find_all_solutions_backtrack_no_timing returns.
VerifiedEqualsUnverified ==
    /\ mode = "idle" =>
           \A asg \in AsgSet :
               verify_solution(formula, asg) = evaluate_formula(formula, asg)
    /\ ({prev.entry, last.entry} = {"bt", "btv"}) => prev.res.val = last.res.val

\* Both entry points have returned several solutions of a formula of
\* several clauses.
VerifiedEqualsUnverifiedWitness ==
    /\ prev.entry = "bt"
    /\ last.entry = "btv"
    /\ Len(last.res.val) >= 2
    /\ Len(formula) >= 2

\* asg holds a literal of every variable of the formula.
CoversFormula(asg) ==
    \A n \in VariableNames(formula) : \E j \in DOMAIN asg : asg[j].name = n

\* C16: every assignment returned by find_first_solution, by
\* find_all_solutions and by the backtracking entry point holds a literal
\* of every variable that occurs in the formula.
NoPartialAssignment ==
    /\ (last.entry = "first" /\ last.res.kind = "list") => CoversFormula(last.res.val)
    /\ last.entry \in {"all", "bt"} =>
           \A i \in DOMAIN last.res.val : CoversFormula(last.res.val[i])

\* A step of a DPLL function that leaves it running.
DpllStep == mode \in {"first", "all"} /\ mode' = mode /\ stack /= <<>>

\* The step is a recursive call made by the innermost invocation.
IsCall == Len(stack') = Len(stack) + 1

\* C17 (branching): an invocation calls itself only from a loop iteration
\* whose simplified clauses are not empty, hold no empty clause and no unit
\* clause, and then exactly twice: first with the first literal of the
\* first simplified clause appended to its assignment, then with the
\* negation of that literal appended; after the second call it returns.
BranchingDiscipline ==
    [][DpllStep =>
        LET n == Len(stack)
            parent == stack[n]
            remaining == Simplify(parent.clauses, parent.assignment)
            branchable == /\ remaining /= <<>>
                          /\ \A i \in DOMAIN remaining : Len(remaining[i]) >= 2
        IN  /\ Len(stack') <= n + 1
            /\ SubSeq(stack', 1, n - 1) = SubSeq(stack, 1, n - 1)
            /\ (parent.pc = "loop" /\ branchable) => IsCall
            /\ parent.pc = "call1" => IsCall
            /\ parent.pc = "call2" => Len(stack') = n - 1
            /\ IsCall =>
                   \/ /\ parent.pc = "loop"
                      /\ branchable
                      /\ stack'[n].pc = "call1"
                      /\ stack'[n].assignment = parent.assignment
                      /\ stack'[n + 1].pc = "loop"
                      /\ stack'[n + 1].assignment =
                             Append(parent.assignment, remaining[1][1])
                   \/ /\ parent.pc = "call1"
                      /\ stack'[n].pc = "call2"
                      /\ stack'[n].assignment = parent.assignment
                      /\ stack'[n + 1].pc = "loop"
                      /\ stack'[n + 1].assignment =
                             Append(parent.assignment, Opposite(parent.clauses[1][1]))
    ]_vars

\* dpll_first_solution has made its second recursive call at the outermost
\* decision, on a formula whose first clause starts with a negative literal.
BranchingDisciplineWitness ==
    /\ mode = "first"
    /\ Len(stack) = 2
    /\ stack[1].pc = "call2"
    /\ ~stack[1].clauses[1][1].positive
    /\ Len(formula) >= 2

\* The literal that the call of invocation k to invocation k + 1 appended.
DecisionLiteral(k) == stack[k + 1].assignment[Len(stack[k].assignment) + 1]

\* The literal invocation k chose: the first of its first simplified clause.
ChosenLiteral(k) == stack[k].clauses[1][1]

\* C18, as amended: at every decision the branch explored first (the
\* invocation is in its first call) is the one that appends the chosen
\* literal itself, and the branch explored second appends its negation; so
\* when the chosen literal is negative the first branch assigns the
\* decision variable false.
ChosenLiteralFirst ==
    mode \in {"first", "all"} =>
        \A k \in 1..(Len(stack) - 1) :
            /\ stack[k].pc = "call1" => DecisionLiteral(k) = ChosenLiteral(k)
            /\ stack[k].pc = "call2" => DecisionLiteral(k) = Opposite(ChosenLiteral(k))
            /\ stack[k].pc \in {"call1", "call2"}

\* dpll_all_solutions is exploring the first branch of a decision whose
\* chosen literal is negative.
ChosenLiteralFirstWitness ==
    /\ mode = "all"
    /\ Len(stack) = 2
    /\ stack[1].pc = "call1"
    /\ ~ChosenLiteral(1).positive

\* C18, as stated: at every decision the branch explored first assigns the
\* decision variable true and the branch explored second assigns it false.
PositiveBranchFirst ==
    mode \in {"first", "all"} =>
        \A k \in 1..(Len(stack) - 1) :
            /\ stack[k].pc = "call1" => DecisionLiteral(k).positive
            /\ stack[k].pc = "call2" => ~DecisionLiteral(k).positive

\* C19: in dpll_first_solution, when the first branch of a decision has
\* returned a solution, the invocation makes no second recursive call.
FirstShortCircuits ==
    [][(mode = "first" /\ stack /= <<>> /\ Top.pc = "call1" /\ retval.kind = "list")
           => Len(stack') <= Len(stack)]_vars

\* C20: in dpll_all_solutions every invocation whose first branch has
\* returned makes the second call, whatever has been recorded; the
\* collection starts empty, gains the current assignment exactly at the
\* steps where no clause remains, is otherwise left alone, and is what
\* find_all_solutions returns.
NeverShortCircuits ==
    [][/\ (mode = "idle" /\ mode' = "all") => solutions' = <<>>
       /\ (mode = "all" /\ stack /= <<>>) =>
              /\ Top.pc = "call1" =>
                     /\ Len(stack') = Len(stack) + 1
                     /\ stack'[Len(stack)].pc = "call2"
              /\ IF Top.pc = "loop" /\ SatisfiesAll(Top.clauses, Top.assignment)
                 THEN solutions' = Append(solutions, Top.assignment)
                 ELSE solutions' = solutions
       /\ (mode = "all" /\ stack = <<>>) =>
              (last'.entry = "all" /\ last'.res = List(solutions))
    ]_vars

\* The second branch of a decision is being explored after the first
\* branch recorded a solution.
NeverShortCircuitsWitness ==
    /\ mode = "all"
    /\ Len(stack) = 2
    /\ stack[1].pc = "call2"
    /\ solutions /= <<>>

\* The first literals of the clauses of length one, in clause order.
UnitLiterals(clauses) ==
    LET OneLiteral(c) == Len(c) = 1
        ones == SelectSeq(clauses, OneLiteral)
    IN  [i \in DOMAIN ones |-> ones[i][1]]

\* C21 (unit propagation): in a loop iteration whose simplified clauses are
\* not empty and hold no empty clause but hold unit clauses, the invocation
\* returns, recording nothing and calling nothing, if two unit literals are
\* opposite; otherwise it stays the innermost invocation, at the top of its
\* loop, with every unit literal appended to its assignment in clause
\* order, and no invocation is added.
UnitPropagation ==
    [][(DpllStep /\ Top.pc = "loop") =>
        LET n == Len(stack)
            remaining == Simplify(Top.clauses, Top.assignment)
            forced == UnitLiterals(remaining)
            conflict == \E i, j \in DOMAIN forced : forced[i] = Opposite(forced[j])
        IN  (/\ remaining /= <<>>
             /\ \A i \in DOMAIN remaining : remaining[i] /= <<>>
             /\ forced /= <<>>) =>
                /\ solutions' = solutions
                /\ IF conflict
                   THEN /\ stack' = SubSeq(stack, 1, n - 1)
                        /\ retval' = None
                   ELSE /\ Len(stack') = n
                        /\ SubSeq(stack', 1, n - 1) = SubSeq(stack, 1, n - 1)
                        /\ stack'[n].pc = "loop"
                        /\ stack'[n].clauses = remaining
                        /\ stack'[n].assignment = Top.assignment \o forced
    ]_vars

\* The outermost invocation of dpll_all_solutions has propagated the
\* literals of two unit clauses in one iteration and is back at the top of
\* its loop.
UnitPropagationWitness ==
    /\ mode = "all"
    /\ Len(stack) = 1
    /\ Top.pc = "loop"
    /\ Len(formula) = 3
    /\ Len(Top.assignment) = 2
    /\ Top.assignment[1].name /= Top.assignment[2].name
    /\ Top.clauses /= formula

\* The distinct variable names of f in ascending order.
AscendingNames(f) ==
    CHOOSE s \in Orders(VariableNames(f)) :
        \A i, j \in DOMAIN s : i < j => s[i] < s[j]

\* asg holds one literal per variable of the formula, the i-th literal being
\* a literal of the i-th name in ascending order.
OneLiteralPerVariable(asg) ==
    /\ Len(asg) = Cardinality(VariableNames(formula))
    /\ \A i \in DOMAIN asg : asg[i].name = AscendingNames(formula)[i]

\* C22 (variable order of the enumerator): the list of variables is the
\* formula's distinct names in ascending order; invocation k decides the
\* k-th name, so the working assignment holds literals of the first names
\* in that order, one each; every recorded and every returned solution has
\* exactly one literal per variable, the i-th being of the i-th name.
SortedVariableOrder ==
    /\ RunningBt =>
           /\ variables = AscendingNames(formula)
           /\ \A k \in DOMAIN stack : stack[k].var_index = k - 1
           /\ Len(assignment) \in {Len(stack) - 1, Len(stack)}
           /\ \A i \in DOMAIN assignment : assignment[i].name = variables[i]
    /\ mode \in {"bt", "btv"} =>
           \A i \in DOMAIN solutions : OneLiteralPerVariable(solutions[i])
    /\ last.entry \in {"bt", "btv"} =>
           \A i \in DOMAIN last.res.val : OneLiteralPerVariable(last.res.val[i])

\* The enumerator has returned several solutions of a formula whose first
\* literal is of the greater of its two variable names.
SortedVariableOrderWitness ==
    /\ last.entry = "bt"
    /\ Len(last.res.val) >= 2
    /\ Cardinality(VariableNames(formula)) = NumVars
    /\ formula[1][1].name = NumVars

\* The first n elements of a list.
Prefix(asg, n) == SubSeq(asg, 1, n)

\* C23 (the enumerator restores its state and records snapshots).  An
\* invocation is entered with as many literals in the working assignment as
\* its var_index; while it is active no step changes those literals; and
\* the step by which it returns leaves exactly those literals.  So on its
\* return the working assignment is what it was on its entry.  A solution
\* in the solutions list is changed by no step of the run.
RestoresAssignment ==
    [][(mode' \in {"bt", "btv"} /\ stack' /= stack) =>
        LET n == Len(stack)
        IN  /\ Len(stack') = n + 1 => Len(assignment') = stack'[n + 1].var_index
            /\ \A k \in DOMAIN stack :
                   Prefix(assignment', stack[k].var_index)
                       = Prefix(assignment, stack[k].var_index)
            /\ Len(stack') = n - 1 => assignment' = Prefix(assignment, Top.var_index)
            /\ mode = mode' =>
                   \A i \in DOMAIN solutions :
                       i \in DOMAIN solutions' /\ solutions'[i] = solutions[i]
    ]_vars

\* The outermost invocation has returned after two solutions over two
\* variables were recorded.
RestoresAssignmentWitness ==
    /\ mode = "bt"
    /\ stack = <<>>
    /\ Len(solutions) >= 2
    /\ Len(variables) = NumVars

\* The number of distinct variable names of the formula.
NumVariables == Cardinality(VariableNames(formula))

\* The variable names that occur in a list of literals.
NamesIn(asg) == {asg[i].name : i \in DOMAIN asg}

\* C24, as amended: the number of simultaneously active invocations of
\* backtrack_all_solutions, and of dpll_all_solutions / dpll_first_solution,
\* never exceeds the number of distinct variables of the formula plus one:
\* the outermost invocation, and nested invocations of which the k-th holds
\* literals of at least k distinct variables.
DepthWithinVariablesPlusOne ==
    /\ Len(stack) <= NumVariables + 1
    /\ mode \in {"first", "all"} =>
           \A k \in DOMAIN stack :
               /\ Cardinality(NamesIn(stack[k].assignment)) >= k - 1
               /\ NamesIn(stack[k].assignment) \subseteq VariableNames(formula)
    /\ mode \in {"bt", "btv"} =>
           \A k \in DOMAIN stack : stack[k].var_index = k - 1

\* dpll_all_solutions is NumVars + 1 invocations deep on a formula of
\* NumVars variables, e.g. [[p, p], [q, q]].
DepthWithinVariablesPlusOneWitness ==
    /\ mode = "all"
    /\ NumVariables = NumVars
    /\ Len(stack) = NumVars + 1

\* C24, as stated: the number of simultaneously active invocations never
\* exceeds the number of distinct variables of the formula.
DepthWithinVariables == Len(stack) <= NumVariables

\* C25 (termination): an entry point that has been called returns; and
\* every step of a DPLL function that restarts the loop or makes a call
\* leaves an innermost invocation whose assignment holds the variables of
\* the assignment of the invocation that took the step and at least one
\* variable more.
Termination ==
    /\ [][(DpllStep /\ Len(stack') >= Len(stack)) =>
            LET before == NamesIn(Top.assignment)
                after == NamesIn(stack'[Len(stack')].assignment)
            IN  before \subseteq after /\ before /= after]_vars
    /\ (mode /= "idle") ~> (mode = "idle" /\ last.entry /= "none")

\* find_all_solutions has returned two assignments, one of them with a
\* propagated literal, on a formula of three clauses.
TerminationWitness ==
    /\ last.entry = "all"
    /\ Len(formula) = 3
    /\ Len(last.res.val) = 2
    /\ \E i \in DOMAIN last.res.val : Len(last.res.val[i]) = 2

\* C26 (sibling isolation in DPLL).  The first call of a decision hands
\* the callee the caller's clauses and the caller's assignment with the
\* chosen literal appended; no step of the callee, whatever it simplifies,
\* propagates or records, changes the clauses or the assignment of an
\* invocation below it; the second call hands the callee the same clauses
\* and the same assignment with the negated literal appended; and no step
\* changes the caller's formula.
SiblingIsolation ==
    [][(mode \in {"first", "all"}) =>
        LET n == Len(stack)
        IN  /\ formula' = formula
            /\ \A k \in 1..(n - 1) :
                   k \in DOMAIN stack' /\ stack'[k] = stack[k]
            /\ (n >= 1 /\ Len(stack') = n + 1) =>
                   /\ stack'[n + 1].clauses = stack'[n].clauses
                   /\ stack'[n].assignment = stack[n].assignment
                   /\ \/ /\ stack[n].pc = "loop"
                         /\ stack'[n + 1].assignment =
                                Append(stack[n].assignment, stack'[n].clauses[1][1])
                      \/ /\ stack[n].pc = "call1"
                         /\ stack'[n].clauses = stack[n].clauses
                         /\ stack'[n + 1].assignment =
                                Append(stack[n].assignment,
                                       Opposite(stack[n].clauses[1][1]))
    ]_vars

\* The second branch of the outermost decision of dpll_all_solutions starts,
\* after the first branch propagated a literal and recorded a solution of a
\* formula of three clauses.
SiblingIsolationWitness ==
    /\ mode = "all"
    /\ Len(formula) = 3
    /\ Len(stack) = 2
    /\ stack[1].pc = "call2"
    /\ Top.pc = "loop"
    /\ Top.clauses = stack[1].clauses
    /\ Len(solutions) = 1
    /\ Len(solutions[1]) = 2

\* The positions of the returned assignments that the row v of the truth
\* table extends.
Extended(res, v) == {i \in DOMAIN res.val : LitSet(res.val[i]) \subseteq RowLits(v)}

\* Two lists of literals that give some variable opposite values.
Incompatible(a, b) == \E i \in DOMAIN a : Opposite(a[i]) \in LitSet(b)

\* C27 (partition): every satisfying row of the truth table of the formula
\* extends exactly one of the assignments find_all_solutions returns, and
\* any two returned assignments give some variable opposite values.
ModelsPartitioned ==
    last.entry = "all" =>
        /\ \A v \in Models(formula) : Cardinality(Extended(last.res, v)) = 1
        /\ \A i, j \in DOMAIN last.res.val :
               i /= j => Incompatible(last.res.val[i], last.res.val[j])

\* find_all_solutions has returned two assignments, one of which leaves a
\* variable of the formula open and is extended by two rows.
ModelsPartitionedWitness ==
    /\ last.entry = "all"
    /\ NumVariables = NumVars
    /\ Len(last.res.val) = 2
    /\ Cardinality(Models(formula)) = 3
    /\ \E i \in DOMAIN last.res.val : Len(last.res.val[i]) = 1

\* No literal occurs at two positions of asg.
NoRepeat(asg) == \A i, j \in DOMAIN asg : i /= j => asg[i] /= asg[j]

\* C28: no assignment returned by find_first_solution or by
\* find_all_solutions holds the same literal more than once.
NoDuplicateLiteral ==
    /\ (last.entry = "first" /\ last.res.kind = "list") => NoRepeat(last.res.val)
    /\ last.entry = "all" =>
           \A i \in DOMAIN last.res.val : NoRepeat(last.res.val[i])

\* The results of find_first_solution and find_all_solutions agree: if the
\* former is an assignment, the latter is a list that starts with it.
FirstIsHeadOfAll(first, all) ==
    first.kind = "list" => (all.val /= <<>> /\ all.val[1] = first.val)

\* C29: whenever find_first_solution returns an assignment,
\* find_all_solutions on the same formula returns a non-empty list whose
\* first element is that assignment, literal by literal.
ModesConsistent ==
    /\ (prev.entry = "first" /\ last.entry = "all") => FirstIsHeadOfAll(prev.res, last.res)
    /\ (prev.entry = "all" /\ last.entry = "first") => FirstIsHeadOfAll(last.res, prev.res)

\* find_first_solution has returned an assignment built in two rounds of
\* propagation, e.g. on [[p], [-p, q]], and find_all_solutions has returned.
ModesConsistentWitness ==
    /\ prev.entry = "first"
    /\ last.entry = "all"
    /\ prev.res.kind = "list"
    /\ Len(prev.res.val) = 2
    /\ \E i \in DOMAIN formula :
           /\ Len(formula[i]) = 2
           /\ formula[i][2] = prev.res.val[2]
           /\ formula[i][1] = Opposite(prev.res.val[1])

\* C30 (verdict): find_all_solutions returns a non-empty list exactly when
\* the formula is satisfiable, and so exactly when the backtracking
\* enumerator returns a non-empty list.
VerdictAgrees ==
    /\ last.entry = "all" => ((last.res.val /= <<>>) <=> Satisfiable(formula))
    /\ ({prev.entry, last.entry} = {"all", "bt"}) =>
           ((prev.res.val /= <<>>) <=> (last.res.val /= <<>>))

\* The two entry points have returned lists of different lengths, both
\* non-empty, for a formula of several clauses.
VerdictAgreesWitness ==
    /\ prev.entry = "bt"
    /\ last.entry = "all"
    /\ Len(formula) >= 2
    /\ last.res.val /= <<>>
    /\ Len(prev.res.val) > Len(last.res.val)

====
